---- MODULE Spec2Model ----
(***************************************************************************)
(* A model of the zj-go-tests Zellij plugin: the aggregation of `go test   *)
(* -json` lines into a package/test tree (main.rs, GoTestsPlugin::pipe),   *)
(* the tests screen (tests_screen.rs) and the logs screen with its search  *)
(* (logs_screen.rs).                                                       *)
(*                                                                         *)
(* Strings that are searched (log lines, the search string) are sequences  *)
(* of characters; names are TLA+ strings.  Option<T> is T or None.         *)
(***************************************************************************)
EXTENDS Integers, Sequences, FiniteSets, TLC

\* Option<T>: None, or Some(x); unwrap(o) is the x of a Some(x)
None == <<>>
Some(x) == <<x>>
unwrap(o) == o[1]
Option(S) == {None} \cup {Some(x) : x \in S}

\* ---------------------------------------------------------------- bounds
MaxPackages == 2
MaxTests == 1
MaxLog == 1
MaxQuery == 2
MaxLines == 2
MaxOpenLog == 2
MaxRows == 4
MaxRuns == 2
MaxHeard == 3

\* ---------------------------------------------------------------- inputs
PkgNames == {"a", "b"}
TestNames == {"t"}
Outputs == {<<"a", "b">>}
\* the characters typed into a search, and the log lines searched
Chars == {"a", "b", "é"}
Lines == {<<"a", "b">>, <<"a", "a", "a">>, <<"b", "a", "b">>, <<"é", "a">>}

\* enum Action, serialized lowercase
Actions == {"start", "run", "output", "pass", "fail", "skip"}
TerminalActions == {"pass", "fail", "skip"}
is_terminal(action) == action # None /\ unwrap(action) \in TerminalActions
\* enum TestResult
TestResults == {"Pass", "Fail", "Skip"}

\* impl TryFrom<Action> for TestResult (only called on the three terminal actions)
TestResult_try_from(action) ==
    CASE action = "pass" -> "Pass"
      [] action = "fail" -> "Fail"
      [] action = "skip" -> "Skip"

\* struct TestLine: the deserialized payload of one pipe message
TestLine(action, package, test, output) ==
    [action |-> action, package |-> package, test |-> test, output |-> output]

\* the lines the model feeds: every action (or none), with the package, the
\* test and the output present or absent
TestLines ==
    {TestLine(a, p, t, None) :
        a \in Option(Actions \ {"output"}), p \in Option(PkgNames),
        t \in Option(TestNames)}
    \cup
    {TestLine(Some("output"), p, t, o) :
        p \in Option(PkgNames), t \in Option(TestNames), o \in Option(Outputs)}

\* the lines that carry every field their action reads
ValidLines ==
    {line \in TestLines :
        /\ line.action # None
        /\ line.package # None
        /\ line.action = Some("run") => line.test # None
        /\ line.action = Some("output") => line.output # None}

\* the lines fed while the tests screen is explored
NavLines == {line \in ValidLines : line.action # Some("skip")}

\* the lines fed while the rendering of the tests screen is explored
RenderLines == {line \in ValidLines : line.action \in {Some("start"), Some("run")}}
\* the rows of the pane a render is called with
Rows == 0..MaxRows

\* the lines fed while a logs screen is followed: one package, its test and
\* their output
OpenLogLines ==
    {line \in ValidLines :
        line.package = Some("a") /\ line.action \in {Some("start"), Some("run"), Some("output")}}

\* the lines fed while the order of the output is followed: package a, its
\* test t run once or again, two outputs that differ, for the test, for the
\* package itself and for a test of a package that never starts
OrderOutputs == {<<"a">>, <<"b">>}
OrderLines ==
    {TestLine(Some("start"), Some("a"), None, None),
     TestLine(Some("run"), Some("a"), Some("t"), None)}
    \cup {TestLine(Some("output"), Some("a"), Some("t"), Some(o)) : o \in OrderOutputs}
    \cup {TestLine(Some("output"), Some("a"), None, Some(o)) : o \in OrderOutputs}
    \cup {TestLine(Some("output"), Some("b"), Some("t"), Some(o)) : o \in OrderOutputs}

\* struct Package / struct TestCase, as pushed by pipe
Package(name) == [name |-> name, result |-> None, tests |-> <<>>, log |-> <<>>]
TestCase(name) == [name |-> name, result |-> None, log |-> <<>>]

VARIABLES
    packages,        \* TestsScreen.packages: the tree pipe fills
    selected_index,  \* TestsScreen.selected_index
    scroll_x,        \* TestsScreen.scroll_x
    scroll_y,        \* TestsScreen.scroll_y
    result_filters,  \* TestsScreen.result_filters
    screen,          \* which screen receives the keys: "tests" or "logs"
    logs,            \* LogsScreen.logs
    logs_scroll_x,   \* LogsScreen.scroll_x
    logs_scroll_y,   \* LogsScreen.scroll_y
    screen_height,   \* LogsScreen.screen_height
    mode,            \* LogsScreen.mode: <<"Normal">> or <<"Search", string>>
    matches,         \* LogsScreen.search_result.matches
    current_index,   \* LogsScreen.search_result.current_index
    default_result,  \* TestResult::default(), fixed but not given by src/
    panicked,        \* an expect()/unwrap() failed: the plugin is dead
    last             \* what the last handler call did (observation only)

tests_vars == <<selected_index, scroll_x, scroll_y, result_filters>>
logs_vars == <<logs, logs_scroll_x, logs_scroll_y, screen_height, mode, matches,
               current_index>>
vars == <<packages, tests_vars, screen, logs_vars, default_result, panicked, last>>

\* ------------------------------------------------------ GoTestsPlugin::pipe

\* self.packages.iter_mut().find(|package| package.name == name): the index
\* of the first package of that name, 0 for no package
find_package(pkgs, name) ==
    IF \E i \in 1..Len(pkgs) : Some(pkgs[i].name) = name
    THEN CHOOSE i \in 1..Len(pkgs) :
            /\ Some(pkgs[i].name) = name
            /\ \A j \in 1..(i - 1) : Some(pkgs[j].name) # name
    ELSE 0

\* package.tests.iter_mut().find(|test| Some(&test.name) == test_name)
find_test(tests, name) ==
    IF \E i \in 1..Len(tests) : Some(tests[i].name) = name
    THEN CHOOSE i \in 1..Len(tests) :
            /\ Some(tests[i].name) = name
            /\ \A j \in 1..(i - 1) : Some(tests[j].name) # name
    ELSE 0

\* line.package.as_deref().expect(..) sits inside find's closure: it is
\* evaluated (and fails on an absent package) only if there is a package to
\* compare with
package_expect_fails(pkgs, line) == Len(pkgs) > 0 /\ line.package = None

\* (mutant) Start pushes no second package of a name
pipe_start_once(pkgs, line) ==
    IF find_package(pkgs, line.package) # 0 THEN pkgs
    ELSE Append(pkgs, Package(unwrap(line.package)))

\* Some(Action::Start)
pipe_start(pkgs, line) == Append(pkgs, Package(unwrap(line.package)))

\* (mutant) a terminal action writes a result only where none is set
pipe_terminal_first_write(pkgs, line) ==
    LET p == find_package(pkgs, line.package) IN
    IF p = 0 THEN pkgs
    ELSE LET t == find_test(pkgs[p].tests, line.test)
             result == Some(TestResult_try_from(unwrap(line.action)))
         IN IF t # 0
            THEN [pkgs EXCEPT ![p].tests[t].result = IF @ = None THEN result ELSE @]
            ELSE [pkgs EXCEPT ![p].result = IF @ = None THEN result ELSE @]

\* Some(action @ (Action::Skip | Action::Pass | Action::Fail))
pipe_terminal(pkgs, line) ==
    LET p == find_package(pkgs, line.package) IN
    IF p = 0 THEN pkgs
    ELSE LET t == find_test(pkgs[p].tests, line.test) IN
         IF t # 0
         THEN [pkgs EXCEPT ![p].tests[t].result = Some(TestResult_try_from(unwrap(line.action)))]
         ELSE [pkgs EXCEPT ![p].result = Some(TestResult_try_from(unwrap(line.action)))]

\* (mutant) Run makes up the package it does not find
pipe_run_or_insert(pkgs, line) ==
    LET p == find_package(pkgs, line.package) IN
    IF p # 0 THEN [pkgs EXCEPT ![p].tests = Append(@, TestCase(unwrap(line.test)))]
    ELSE IF line.package = None \/ line.test = None THEN pkgs
    ELSE Append(pkgs, [Package(unwrap(line.package)) EXCEPT
                          !.tests = <<TestCase(unwrap(line.test))>>])

\* Some(Action::Run)
pipe_run(pkgs, line) ==
    LET p == find_package(pkgs, line.package) IN
    IF p = 0 THEN pkgs
    ELSE [pkgs EXCEPT ![p].tests = Append(@, TestCase(unwrap(line.test)))]

\* Some(Action::Output)
pipe_output(pkgs, line) ==
    LET p == find_package(pkgs, line.package) IN
    IF line.test # None
    THEN IF p = 0 THEN pkgs
         ELSE LET t == find_test(pkgs[p].tests, line.test) IN
              IF t = 0 THEN pkgs
              ELSE [pkgs EXCEPT ![p].tests[t].log = Append(@, unwrap(line.output))]
    ELSE IF p = 0 THEN pkgs
         ELSE [pkgs EXCEPT ![p].log = Append(@, unwrap(line.output))]

\* the expect() calls of pipe that fail on this line in this tree
pipe_panics(pkgs, line) ==
    CASE line.action = Some("start") -> line.package = None
      [] is_terminal(line.action) -> package_expect_fails(pkgs, line)
      [] line.action = Some("run") ->
            \/ package_expect_fails(pkgs, line)
            \/ find_package(pkgs, line.package) # 0 /\ line.test = None
      [] line.action = Some("output") ->
            \/ package_expect_fails(pkgs, line)
            \/ LET p == find_package(pkgs, line.package) IN
               /\ p # 0
               /\ line.test # None => find_test(pkgs[p].tests, line.test) # 0
               /\ line.output = None
      [] OTHER -> FALSE

\* the match on line.action
pipe_packages(pkgs, line) ==
    CASE line.action = Some("start") -> pipe_start(pkgs, line)
      [] is_terminal(line.action) -> pipe_terminal(pkgs, line)
      [] line.action = Some("run") -> pipe_run(pkgs, line)
      [] line.action = Some("output") -> pipe_output(pkgs, line)
      [] OTHER -> pkgs

\* Observation of a handler call that is no pipe call: the arm taken; a render
\* is also observed with its rows and with whether it repeats the render
\* before it (again), a pipe call followed for the order of its output with
\* what the observer has heard so far (heard)
Observed(arm) ==
    [output |-> FALSE, arm |-> arm, was |-> None, kind |-> None, rows |-> None,
     again |-> FALSE, heard |-> <<>>]

\* Observation of one pipe call: the arm of the dispatch that was taken, and for
\* a terminal action that reached an entity, the result the entity had (was)
\* and the kind the action carries (kind).
pipe_observed(pkgs, line) ==
    LET p == IF line.action \in {None, Some("start")}
             THEN 0 ELSE find_package(pkgs, line.package)
        t == IF p = 0 \/ line.action = Some("run")
             THEN 0 ELSE find_test(pkgs[p].tests, line.test)
        hit == is_terminal(line.action) /\ p # 0
    IN [output |-> line.action = Some("output"),
        arm |-> CASE pipe_panics(pkgs, line) -> "panic"
                  [] line.action = None -> "ignored"
                  [] line.action = Some("start") -> "start"
                  [] line.package = None -> "absent_package"
                  [] p = 0 -> "no_package"
                  [] line.action = Some("run") -> "run"
                  [] t # 0 -> "test"
                  [] line.test # None -> "no_test"
                  [] OTHER -> "package",
        was |-> IF ~hit THEN None
                ELSE IF t # 0 THEN pkgs[p].tests[t].result ELSE pkgs[p].result,
        kind |-> IF ~hit THEN None
                 ELSE Some(TestResult_try_from(unwrap(line.action))),
        rows |-> None,
        again |-> FALSE,
        heard |-> <<>>]

\* the model's bounds on the tree: its packages, its test cases and its log
\* lines, each counted over the whole tree
RECURSIVE sum(_)
sum(numbers) == IF numbers = <<>> THEN 0 ELSE Head(numbers) + sum(Tail(numbers))

test_count(pkgs) == sum([p \in 1..Len(pkgs) |-> Len(pkgs[p].tests)])
log_count(pkgs) ==
    sum([p \in 1..Len(pkgs) |->
            Len(pkgs[p].log)
            + sum([t \in 1..Len(pkgs[p].tests) |-> Len(pkgs[p].tests[t].log)])])

Fits(pkgs) ==
    /\ Len(pkgs) <= MaxPackages
    /\ test_count(pkgs) <= MaxTests
    /\ log_count(pkgs) <= MaxLog

\* pipe_step as it would be if an open logs screen showed the log of the first
\* package itself instead of the clone it was given
pipe_step_shared_log(line, observed) ==
    /\ ~panicked
    /\ last' = observed
    /\ IF pipe_panics(packages, line)
       THEN /\ panicked' = TRUE
            /\ UNCHANGED <<packages, logs>>
       ELSE /\ packages' = pipe_packages(packages, line)
            /\ logs' = IF screen = "logs" /\ packages' # <<>>
                       THEN packages'[1].log ELSE logs
            /\ UNCHANGED panicked
    /\ UNCHANGED <<tests_vars, screen, logs_scroll_x, logs_scroll_y, screen_height,
                   mode, matches, current_index, default_result>>

\* fn pipe(&mut self, pipe_message) with payload `line`, observed as `observed`
pipe_step(line, observed) ==
    /\ ~panicked
    /\ last' = observed
    /\ IF pipe_panics(packages, line)
       THEN /\ panicked' = TRUE
            /\ UNCHANGED packages
       ELSE /\ packages' = pipe_packages(packages, line)
            /\ UNCHANGED panicked
    /\ UNCHANGED <<tests_vars, screen, logs_vars, default_result>>

\* a pipe call whose tree stays within the model's bounds
pipe_call(line, observed) ==
    /\ pipe_step(line, observed)
    /\ IF pipe_panics(packages, line) THEN TRUE
       ELSE Fits(pipe_packages(packages, line))

\* a pipe call observed in full
pipe(line) == pipe_call(line, pipe_observed(packages, line))

\* a pipe call observed only as having happened
pipe_unobserved(line) == pipe_call(line, Observed("pipe"))

\* a pipe call received while a logs screen is followed: the tree may then hold
\* MaxOpenLog log lines, so that a log can grow after it was opened
pipe_beside_logs(line) ==
    /\ pipe_step(line, Observed("pipe"))
    /\ Len(packages') <= MaxPackages
    /\ test_count(packages') <= MaxTests
    /\ log_count(packages') <= MaxOpenLog

\* what an observer of the pipe has heard for test t of package a after `line`:
\* one sequence per `run` line that found the package, holding the outputs
\* that arrived for the pair since that line
heard_after(pkgs, heard, line) ==
    IF line.action = Some("run") /\ line.package = Some("a") /\ line.test = Some("t")
       /\ find_package(pkgs, line.package) # 0
    THEN Append(heard, <<>>)
    ELSE IF line.action = Some("output") /\ line.package = Some("a")
            /\ line.test = Some("t")
    THEN [k \in 1..Len(heard) |-> Append(heard[k], unwrap(line.output))]
    ELSE heard

\* a pipe call followed for the order of its output: the tree may hold MaxRuns
\* test cases and MaxHeard log lines
pipe_in_order(line) ==
    /\ pipe_step(line, [Observed("pipe") EXCEPT
                            !.heard = heard_after(packages, last.heard, line)])
    /\ Len(packages') <= MaxPackages
    /\ test_count(packages') <= MaxRuns
    /\ log_count(packages') <= MaxHeard

\* -------------------------------------------------------------- TestsScreen

\* usize::saturating_sub and min
saturating_sub(a, b) == IF a > b THEN a - b ELSE 0
min(a, b) == IF a < b THEN a ELSE b

\* usize arithmetic that goes below zero: a build with overflow checks panics,
\* a build without them wraps around. usize has 2^32 values on the plugin's
\* wasm32 target; the model wraps at 2^30, which is as far above every index
\* of the model and within the integers of the model checker.
usize_modulus == 2^30
wrapping_sub(a, b) == (a - b) % usize_modulus

\* TestResult::default(): tests_screen.rs relies on a Default impl that the
\* enum of main.rs does not derive; it is one of the three kinds
TestResult_default == default_result

\* (mutant) unwrap_or(TestResult::Skip), as ListItem::render does
unwrap_or_skip(result) == IF result = None THEN "Skip" ELSE unwrap(result)

\* Option<TestResult>::unwrap_or_default()
unwrap_or_default(result) ==
    IF result = None THEN TestResult_default ELSE unwrap(result)

\* (mutant) without the arm for "no filter set"
is_test_visible_filtered(filters, test_result) ==
    \/ filters.pass /\ test_result = "Pass"
    \/ filters.fail /\ test_result = "Fail"
    \/ filters.skip /\ test_result = "Skip"

\* fn is_test_visible(&self, test_result)
is_test_visible(filters, test_result) ==
    \/ ~filters.pass /\ ~filters.fail /\ ~filters.skip
    \/ filters.pass /\ test_result = "Pass"
    \/ filters.fail /\ test_result = "Fail"
    \/ filters.skip /\ test_result = "Skip"

\* the ListItems of one visible package: ListItem::Package, then a
\* ListItem::TestCase per visible test.  An item is <<p, t>>: package p
\* (t = 0) or test t of package p, both counted from 1.
package_list_items(pkgs, filters, p) ==
    LET tests == pkgs[p].tests
        shown == SelectSeq([t \in 1..Len(tests) |-> t],
                    LAMBDA t : is_test_visible(filters, unwrap_or_default(tests[t].result)))
    IN <<<<p, 0>>>> \o [i \in 1..Len(shown) |-> <<p, shown[i]>>]

RECURSIVE flat_map_packages(_, _, _)
flat_map_packages(pkgs, filters, p) ==
    IF p > Len(pkgs) THEN <<>>
    ELSE (IF is_test_visible(filters, unwrap_or_default(pkgs[p].result))
          THEN package_list_items(pkgs, filters, p) ELSE <<>>)
         \o flat_map_packages(pkgs, filters, p + 1)

\* fn visible_list_items(&self) -> Vec<ListItem>
visible_list_items(pkgs, filters) == flat_map_packages(pkgs, filters, 1)

\* the log a ListItem hands to LogsScreen::new
item_log(pkgs, item) ==
    IF item[2] = 0 THEN pkgs[item[1]].log ELSE pkgs[item[1]].tests[item[2]].log

\* LogsScreen::new(logs): the logs, everything else default
LogsScreen_new(new_logs) ==
    /\ logs' = new_logs
    /\ logs_scroll_x' = 0
    /\ logs_scroll_y' = 0
    /\ screen_height' = None
    /\ mode' = <<"Normal">>
    /\ matches' = <<>>
    /\ current_index' = None

\* what the plugin does with UpdateCommand::ShowLogsScreen(logs_screen)
ShowLogsScreen(new_logs) == screen' = "logs" /\ LogsScreen_new(new_logs)

\* what the plugin does with UpdateCommand::ExitScreen: back to the tests
\* screen, the LogsScreen dropped
ExitScreen == screen' = "tests" /\ LogsScreen_new(<<>>)

\* --------------------------------------------------------------- LogsScreen

\* str::len(): the length in bytes of a string of characters ("é" takes two)
char_len(c) == IF c = "é" THEN 2 ELSE 1
RECURSIVE str_len(_)
str_len(str) == IF str = <<>> THEN 0 ELSE char_len(Head(str)) + str_len(Tail(str))

\* does `needle` occur in `line` at character position i (from 1)?
occurs_at(line, needle, i) ==
    /\ i + Len(needle) - 1 <= Len(line)
    /\ SubSeq(line, i, i + Len(needle) - 1) = needle

\* str::match_indices(needle) for a non-empty needle: the byte offsets of the
\* non-overlapping occurrences, left to right, scanning from character i
RECURSIVE match_indices_from(_, _, _)
match_indices_from(line, needle, i) ==
    IF i > Len(line) THEN <<>>
    ELSE IF occurs_at(line, needle, i)
         THEN <<str_len(SubSeq(line, 1, i - 1))>>
              \o match_indices_from(line, needle, i + Len(needle))
         ELSE match_indices_from(line, needle, i + 1)

match_indices(line, needle) == match_indices_from(line, needle, 1)

\* .map(|(start_idx, needle)| (idx, start_idx..(needle.len()))): one entry of
\* search_result.matches, the line index counted from 0
match_entry(idx, start_idx, needle) ==
    [line |-> idx, start |-> start_idx, end |-> str_len(needle)]

\* self.logs.iter().enumerate().flat_map(..).collect(), from line idx (from 0)
RECURSIVE search_matches_from(_, _, _)
search_matches_from(lines, needle, idx) ==
    IF idx >= Len(lines) THEN <<>>
    ELSE LET found == match_indices(lines[idx + 1], needle) IN
         [i \in 1..Len(found) |-> match_entry(idx, found[i], needle)]
         \o search_matches_from(lines, needle, idx + 1)

search_matches(lines, needle) == search_matches_from(lines, needle, 0)

\* a key delivered to LogsScreen::update
logs_key == ~panicked /\ screen = "logs"
logs_normal == logs_key /\ mode = <<"Normal">>
logs_search == logs_key /\ mode[1] = "Search"

\* Mode::Normal, BareKey::Esc => Some(UpdateCommand::ExitScreen)
logs_esc ==
    /\ logs_normal
    /\ ExitScreen
    /\ last' = Observed("exit")
    /\ UNCHANGED <<packages, tests_vars, default_result, panicked>>

\* the arms of Mode::Normal that only move scroll_y
logs_scroll_to(arm, y) ==
    /\ logs_normal
    /\ logs_scroll_y' = y
    /\ last' = Observed(arm)
    /\ UNCHANGED <<packages, tests_vars, screen, logs, logs_scroll_x, screen_height,
                   mode, matches, current_index, default_result, panicked>>

\* BareKey::Down | BareKey::Char('j')
logs_down ==
    logs_scroll_to("down", min(logs_scroll_y + 1, saturating_sub(Len(logs), 1)))

\* BareKey::Up | BareKey::Char('k')
logs_up == logs_scroll_to("up", saturating_sub(logs_scroll_y, 1))

\* BareKey::PageDown | BareKey::Char('d')
logs_page_down ==
    logs_scroll_to("page_down",
        IF screen_height = None THEN logs_scroll_y
        ELSE min(logs_scroll_y + (unwrap(screen_height) \div 2),
                 saturating_sub(Len(logs), 1)))

\* BareKey::PageUp | BareKey::Char('u')
logs_page_up ==
    logs_scroll_to("page_up",
        IF screen_height = None THEN logs_scroll_y
        ELSE saturating_sub(logs_scroll_y, unwrap(screen_height) \div 2))

\* BareKey::Char('f')
logs_full_down ==
    logs_scroll_to("full_down",
        IF screen_height = None THEN logs_scroll_y
        ELSE min(logs_scroll_y + unwrap(screen_height), saturating_sub(Len(logs), 1)))

\* BareKey::Char('b')
logs_full_up ==
    logs_scroll_to("full_up",
        IF screen_height = None THEN logs_scroll_y
        ELSE saturating_sub(logs_scroll_y, unwrap(screen_height)))

\* the arms of Mode::Normal that only move scroll_x
logs_scroll_x_to(arm, x) ==
    /\ logs_normal
    /\ logs_scroll_x' = x
    /\ last' = Observed(arm)
    /\ UNCHANGED <<packages, tests_vars, screen, logs, logs_scroll_y, screen_height,
                   mode, matches, current_index, default_result, panicked>>

\* BareKey::Left | BareKey::Char('h')
logs_left == logs_scroll_x_to("left", saturating_sub(logs_scroll_x, 1))

\* BareKey::Right | BareKey::Char('l')
logs_right == logs_scroll_x_to("right", min(logs_scroll_x + 1, 1))

\* logs_slash as it would be if '/' also dropped the previous search result
logs_slash_reset ==
    /\ logs_normal
    /\ mode' = <<"Search", <<>>>>
    /\ matches' = <<>>
    /\ current_index' = None
    /\ last' = Observed("slash")
    /\ UNCHANGED <<packages, tests_vars, screen, logs, logs_scroll_x, logs_scroll_y,
                   screen_height, default_result, panicked>>

\* BareKey::Char('/')
logs_slash ==
    /\ logs_normal
    /\ mode' = <<"Search", <<>>>>
    /\ last' = Observed("slash")
    /\ UNCHANGED <<packages, tests_vars, screen, logs, logs_scroll_x, logs_scroll_y,
                   screen_height, matches, current_index, default_result, panicked>>

\* BareKey::Char('n') and BareKey::Char('N'): move current_index to `to` and
\* scroll to matches[to].0, which panics when `to` is out of bounds; observed
\* with the current_index the key found (was)
logs_goto_match(arm, to) ==
    /\ logs_normal
    /\ IF current_index = None
       THEN /\ last' = Observed("no_match")
            /\ UNCHANGED <<current_index, logs_scroll_y, panicked>>
       ELSE IF to < Len(matches)
       THEN /\ current_index' = Some(to)
            /\ logs_scroll_y' = matches[to + 1].line
            /\ last' = [Observed(arm) EXCEPT !.was = current_index]
            /\ UNCHANGED panicked
       ELSE /\ current_index' = Some(to)
            /\ panicked' = TRUE
            /\ last' = Observed("panic")
            /\ UNCHANGED logs_scroll_y
    /\ UNCHANGED <<packages, tests_vars, screen, logs, logs_scroll_x, screen_height,
                   mode, matches, default_result>>

\* logs_next_match as it would be if 'n' on the last match wrapped around to
\* the first
logs_next_match_wrap ==
    logs_goto_match("next_match",
        IF current_index = None THEN 0
        ELSE IF unwrap(current_index) + 1 < Len(matches)
             THEN unwrap(current_index) + 1 ELSE 0)

\* BareKey::Char('n')
logs_next_match ==
    logs_goto_match("next_match",
        IF current_index = None THEN 0
        ELSE min(unwrap(current_index) + 1, saturating_sub(Len(matches), 1)))

\* logs_prev_match as it would be if 'N' on the first match went round to
\* index matches.len() instead of staying at 0
logs_prev_match_past_end ==
    logs_goto_match("prev_match",
        IF current_index = None THEN 0
        ELSE IF unwrap(current_index) = 0 THEN Len(matches)
        ELSE unwrap(current_index) - 1)

\* BareKey::Char('N')
logs_prev_match ==
    logs_goto_match("prev_match",
        IF current_index = None THEN 0 ELSE saturating_sub(unwrap(current_index), 1))

\* Mode::Normal, `_ => None`
logs_other ==
    /\ logs_normal
    /\ last' = Observed("other")
    /\ UNCHANGED <<packages, tests_vars, screen, logs_vars, default_result, panicked>>

\* logs_search_leave as it would be if leaving Mode::Search dropped the search
\* result with the search string
logs_search_leave_clearing ==
    /\ logs_search
    /\ mode' = <<"Normal">>
    /\ matches' = <<>>
    /\ current_index' = None
    /\ last' = Observed("leave_search")
    /\ UNCHANGED <<packages, tests_vars, screen, logs, logs_scroll_x, logs_scroll_y,
                   screen_height, default_result, panicked>>

\* logs_search_leave as it would be if Esc and Enter in Mode::Search returned
\* UpdateCommand::ExitScreen as Esc in Mode::Normal does
logs_search_leave_exit ==
    /\ logs_search
    /\ ExitScreen
    /\ last' = Observed("leave_search")
    /\ UNCHANGED <<packages, tests_vars, default_result, panicked>>

\* Mode::Search, BareKey::Esc | BareKey::Enter
logs_search_leave ==
    /\ logs_search
    /\ mode' = <<"Normal">>
    /\ last' = Observed("leave_search")
    /\ UNCHANGED <<packages, tests_vars, screen, logs, logs_scroll_x, logs_scroll_y,
                   screen_height, matches, current_index, default_result, panicked>>

\* logs_search_char as it would be if a typed character recomputed the matches
\* and never scrolled to the first of them
logs_search_char_no_scroll(c) ==
    /\ logs_search
    /\ Len(mode[2]) < MaxQuery
    /\ LET search_string == Append(mode[2], c)
           found == search_matches(logs, search_string)
       IN /\ mode' = <<"Search", search_string>>
          /\ matches' = found
          /\ current_index' = IF found # <<>> THEN Some(0) ELSE None
    /\ last' = Observed("char")
    /\ UNCHANGED <<packages, tests_vars, screen, logs, logs_scroll_x, logs_scroll_y,
                   screen_height, default_result, panicked>>

\* Mode::Search, BareKey::Char(c)
logs_search_char(c) ==
    /\ logs_search
    /\ Len(mode[2]) < MaxQuery
    /\ LET search_string == Append(mode[2], c)
           found == search_matches(logs, search_string)
       IN /\ mode' = <<"Search", search_string>>
          /\ matches' = found
          /\ IF found # <<>>
             THEN logs_scroll_y' = found[1].line /\ current_index' = Some(0)
             ELSE logs_scroll_y' = logs_scroll_y /\ current_index' = None
    /\ last' = Observed("char")
    /\ UNCHANGED <<packages, tests_vars, screen, logs, logs_scroll_x, screen_height,
                   default_result, panicked>>

\* logs_search_other as it would be if Backspace removed the last character of
\* the search string and searched again
logs_search_pop ==
    /\ logs_search
    /\ LET search_string == SubSeq(mode[2], 1, Len(mode[2]) - 1)
           found == IF search_string = <<>> THEN <<>>
                    ELSE search_matches(logs, search_string)
       IN /\ mode' = <<"Search", search_string>>
          /\ matches' = found
          /\ IF found # <<>>
             THEN logs_scroll_y' = found[1].line /\ current_index' = Some(0)
             ELSE logs_scroll_y' = logs_scroll_y /\ current_index' = None
    /\ last' = Observed("search_other")
    /\ UNCHANGED <<packages, tests_vars, screen, logs, logs_scroll_x, screen_height,
                   default_result, panicked>>

\* Mode::Search, `_ => None` (Backspace and every other key that is no Char)
logs_search_other ==
    /\ logs_search
    /\ last' = Observed("search_other")
    /\ UNCHANGED <<packages, tests_vars, screen, logs_vars, default_result, panicked>>

\* LogsScreen::render(&mut self, rows, cols): self.screen_height =
\* Some(rows - 1), where `rows - 1` goes below zero when rows = 0: with
\* overflow checks it panics before screen_height is written, without them it
\* wraps (and wraps again for the row of the bottom text)
logs_render(rows) ==
    /\ logs_key
    /\ \E overflow_checks \in BOOLEAN :
          IF overflow_checks /\ rows < 1
          THEN panicked' = TRUE /\ UNCHANGED screen_height
          ELSE /\ screen_height' = Some(wrapping_sub(rows, 1))
               /\ UNCHANGED panicked
    /\ last' = [Observed("logs_render") EXCEPT !.rows = Some(rows)]
    /\ UNCHANGED <<packages, tests_vars, screen, logs, logs_scroll_x, logs_scroll_y,
                   mode, matches, current_index, default_result>>

\* a key delivered to TestsScreen::update
tests_key == ~panicked /\ screen = "tests"

\* Key::Down | Key::Char('j')
tests_down ==
    /\ tests_key
    /\ selected_index' =
          min(selected_index + 1,
              saturating_sub(Len(visible_list_items(packages, result_filters)), 1))
    /\ last' = Observed("down")
    /\ UNCHANGED <<packages, scroll_x, scroll_y, result_filters, screen, logs_vars,
                   default_result, panicked>>

\* Key::Up | Key::Char('k')
tests_up ==
    /\ tests_key
    /\ selected_index' = saturating_sub(selected_index, 1)
    /\ last' = Observed("up")
    /\ UNCHANGED <<packages, scroll_x, scroll_y, result_filters, screen, logs_vars,
                   default_result, panicked>>

\* Key::Left | Key::Char('h')
tests_left ==
    /\ tests_key
    /\ scroll_x' = saturating_sub(scroll_x, 1)
    /\ last' = Observed("left")
    /\ UNCHANGED <<packages, selected_index, scroll_y, result_filters, screen,
                   logs_vars, default_result, panicked>>

\* Key::Right | Key::Char('l')
tests_right ==
    /\ tests_key
    /\ scroll_x' = min(scroll_x + 1, 1)
    /\ last' = Observed("right")
    /\ UNCHANGED <<packages, selected_index, scroll_y, result_filters, screen,
                   logs_vars, default_result, panicked>>

\* Key::Char('\n'): visible_list_items().get(selected_index).map(ShowLogsScreen)
tests_enter ==
    /\ tests_key
    /\ LET items == visible_list_items(packages, result_filters) IN
       IF selected_index < Len(items)
       THEN /\ ShowLogsScreen(item_log(packages, items[selected_index + 1]))
            /\ last' = Observed("show_logs")
       ELSE /\ last' = Observed("enter")
            /\ UNCHANGED <<screen, logs_vars>>
    /\ UNCHANGED <<packages, tests_vars, default_result, panicked>>

\* Key::Char('1') | Key::Char('2') | Key::Char('3')
toggled(filters, digit) ==
    CASE digit = 1 -> [filters EXCEPT !.pass = ~@]
      [] digit = 2 -> [filters EXCEPT !.fail = ~@]
      [] digit = 3 -> [filters EXCEPT !.skip = ~@]

\* TestsScreen::render, the scroll_y it leaves: moved down by what the
\* selection is below bottom_index, or up by what it is above scroll_y
render_scroll_y(scroll, selected, bottom_index) ==
    IF selected > bottom_index
    THEN scroll + (selected - bottom_index)
    ELSE IF selected < scroll
    THEN saturating_sub(scroll, scroll - selected)
    ELSE scroll

\* TestsScreen::render, .enumerate().skip(self.scroll_y).take(count): the
\* indices (from 0) of the list items that are drawn
render_rows(len, scroll, count) == {i \in 0..(len - 1) : scroll <= i /\ i < scroll + count}

\* pub(crate) fn render(&mut self, rows, cols). `self.scroll_y + rows - 2`
\* goes below zero when scroll_y + rows < 2, and `rows - 2` of take() when
\* rows < 2: with overflow checks the first of them panics (the second one
\* after scroll_y was written), without them both wrap.
tests_render(rows) ==
    /\ tests_key
    /\ \E overflow_checks \in BOOLEAN :
          LET first_underflows == scroll_y + rows < 2
              bottom_index == wrapping_sub(scroll_y + rows, 2)
          IN IF overflow_checks /\ first_underflows
             THEN panicked' = TRUE /\ UNCHANGED scroll_y
             ELSE /\ scroll_y' = render_scroll_y(scroll_y, selected_index, bottom_index)
                  /\ panicked' = (overflow_checks /\ rows < 2)
    /\ last' = [Observed("render") EXCEPT
                   !.rows = Some(rows),
                   !.was = Some(scroll_y),
                   !.again = (last.arm = "render" /\ last.rows = Some(rows))]
    /\ UNCHANGED <<packages, selected_index, scroll_x, result_filters, screen,
                   logs_vars, default_result>>

tests_toggle(digit) ==
    /\ tests_key
    /\ result_filters' = toggled(result_filters, digit)
    /\ last' = Observed("toggle")
    /\ UNCHANGED <<packages, selected_index, scroll_x, scroll_y, screen, logs_vars,
                   default_result, panicked>>

\* any other event: `_ => None`
tests_other ==
    /\ tests_key
    /\ last' = Observed("other")
    /\ UNCHANGED <<packages, tests_vars, screen, logs_vars, default_result, panicked>>

\* ------------------------------------------------------------ construction


\* #[derive(Default)] ResultFilters
NoFilters == [pass |-> FALSE, fail |-> FALSE, skip |-> FALSE]

\* TestsScreen::default() and LogsScreen::default()
Init ==
    /\ packages = <<>>
    /\ selected_index = 0
    /\ scroll_x = 0
    /\ scroll_y = 0
    /\ result_filters = NoFilters
    /\ screen = "tests"
    /\ logs = <<>>
    /\ logs_scroll_x = 0
    /\ logs_scroll_y = 0
    /\ screen_height = None
    /\ mode = <<"Normal">>
    /\ matches = <<>>
    /\ current_index = None
    /\ default_result \in TestResults
    /\ panicked = FALSE
    /\ last = Observed("new")

\* the aggregation alone: pipe messages, well-formed or not
NextPipe == \E line \in TestLines : pipe(line)

\* pipe never reads TestResult::default()
InitPipe == Init /\ default_result = "Pass"

SpecPipe == InitPipe /\ [][NextPipe]_vars


\* the tests screen: well-formed lines and the keys of TestsScreen::update; on
\* the logs screen only Esc (back)
NextTests ==
    \/ \E line \in NavLines : pipe_unobserved(line)
    \/ tests_down
    \/ tests_up
    \/ tests_enter
    \/ \E digit \in 1..3 : tests_toggle(digit)
    \/ logs_esc

SpecTests == Init /\ [][NextTests]_vars

\* the logs screen alone: opened by Enter on a package whose log is some lines
\* of Lines, then every key of LogsScreen::update
InitLogs ==
    \E new_logs \in UNION {[1..n -> Lines] : n \in 0..MaxLines} :
        /\ packages = <<[Package("a") EXCEPT !.log = new_logs]>>
        /\ selected_index = 0
        /\ scroll_x = 0
        /\ scroll_y = 0
        /\ result_filters = NoFilters
        /\ screen = "logs"
        /\ logs = new_logs
        /\ logs_scroll_x = 0
        /\ logs_scroll_y = 0
        /\ screen_height = None
        /\ mode = <<"Normal">>
        /\ matches = <<>>
        /\ current_index = None
        /\ default_result = "Pass"
        /\ panicked = FALSE
        /\ last = Observed("show_logs")

NextLogs ==
    \/ logs_esc
    \/ logs_down
    \/ logs_up
    \/ logs_left
    \/ logs_right
    \/ logs_page_down
    \/ logs_page_up
    \/ logs_full_down
    \/ logs_full_up
    \/ logs_slash
    \/ logs_next_match
    \/ logs_prev_match
    \/ logs_other
    \/ logs_search_leave
    \/ \E c \in Chars : logs_search_char(c)
    \/ logs_search_other

SpecLogs == InitLogs /\ [][NextLogs]_vars

\* a logs screen followed while pipe messages keep arriving: the tests screen
\* opens it, pipe fills the tree, and the search keys work on what was opened
NextOpenLog ==
    \/ \E line \in OpenLogLines : pipe_beside_logs(line)
    \/ tests_down
    \/ tests_enter
    \/ logs_esc
    \/ logs_slash
    \/ \E c \in Chars : logs_search_char(c)
    \/ logs_search_leave
    \/ logs_next_match
    \/ logs_prev_match

SpecOpenLog == InitPipe /\ [][NextOpenLog]_vars

\* the pipe alone, followed for the order in which output arrives
NextOrder == \E line \in OrderLines : pipe_in_order(line)

SpecOrder == InitPipe /\ [][NextOrder]_vars

\* the tests screen rendered: the tree grows, the selection and the filter
\* move, and render is called with any rows
NextRender ==
    \/ \E line \in RenderLines : pipe_unobserved(line)
    \/ tests_down
    \/ tests_up
    \/ tests_left
    \/ tests_right
    \/ \E digit \in 1..3 : tests_toggle(digit)
    \/ \E rows \in Rows : tests_render(rows)

SpecRender == Init /\ [][NextRender]_vars

\* both screens rendered in panes of any height: packages start, the selection
\* moves, Enter opens the log of the selected package and Esc closes it
NextViewport ==
    \/ \E line \in RenderLines : pipe_unobserved(line)
    \/ tests_down
    \/ tests_up
    \/ \E rows \in Rows : tests_render(rows)
    \/ tests_enter
    \/ \E rows \in Rows : logs_render(rows)
    \/ logs_page_down
    \/ logs_page_up
    \/ logs_esc

SpecViewport == InitPipe /\ [][NextViewport]_vars

\* ================================================================== claims

\* every configuration of ResultFilters
AllFilters == [pass : BOOLEAN, fail : BOOLEAN, skip : BOOLEAN]

\* the result a terminal line carries
line_result(line) == Some(TestResult_try_from(unwrap(line.action)))

\* the results of the tree, entity by entity
results(pkgs) ==
    [p \in 1..Len(pkgs) |->
        <<pkgs[p].result, [t \in 1..Len(pkgs[p].tests) |-> pkgs[p].tests[t].result]>>]

C2_UnknownTestDropped ==
    [][\A line \in TestLines :
          (/\ is_terminal(line.action) \/ line.action = Some("output")
           /\ find_package(packages, line.package) # 0
           /\ line.test # None
           /\ find_test(packages[find_package(packages, line.package)].tests,
                        line.test) = 0
           /\ pipe(line))
          => packages' = packages]_vars

\* ---- C3
\* C3: a Run, Output or terminal event whose `package` names no package of
\* the tree does not fail and leaves the tree as it was.
C3_UnknownPackageDropped ==
    [][\A line \in TestLines :
          (/\ line.action \in {Some("run"), Some("output")} \/ is_terminal(line.action)
           /\ line.package # None
           /\ find_package(packages, line.package) = 0
           /\ pipe(line))
          => packages' = packages /\ ~panicked']_vars

\* C3 witness: an Output event naming an unknown package was just dropped
\* from a tree that has packages
C3_Witness ==
    /\ last.arm = "no_package" /\ last.output
    /\ packages # <<>> /\ ~panicked

\* ---- C7
\* the names of the Package items of a list of items, in list order
package_item_names(pkgs, items) ==
    LET heads == SelectSeq(items, LAMBDA item : item[2] = 0)
    IN [i \in 1..Len(heads) |-> pkgs[heads[i][1]].name]

\* C7: the unfiltered list starts without Package items; each valid Start
\* event appends one Package item, of its name, at the end, and every other
\* valid event leaves the Package items and their order as they were: the
\* Package items are the Start events, in order.
C7_PackagesFollowStarts ==
    [][\A line \in ValidLines :
          pipe(line) =>
            LET before == package_item_names(packages,
                              visible_list_items(packages, NoFilters))
                after == package_item_names(packages',
                              visible_list_items(packages', NoFilters))
            IN after = IF line.action = Some("start")
                       THEN Append(before, unwrap(line.package))
                       ELSE before]_vars

\* C7 witness: two packages of different names, the second Start long past:
\* a terminal event has just set a test case's result
C7_Witness ==
    /\ Len(packages) = 2 /\ packages[1].name # packages[2].name
    /\ last.arm = "test" /\ last.kind # None

\* ---- C4
\* C4 (as stated): on the tests screen selected_index is an index of the
\* visible list, or 0 when the list is empty.
C4_SelectedInRange ==
    screen = "tests" =>
        LET n == Len(visible_list_items(packages, result_filters)) IN
        IF n = 0 THEN selected_index = 0 ELSE selected_index < n

\* ---- C5
is_item(items, item) == \E i \in 1..Len(items) : items[i] = item

RECURSIVE all_items_from(_, _)
all_items_from(pkgs, p) ==
    IF p > Len(pkgs) THEN <<>>
    ELSE <<<<p, 0>>>> \o [t \in 1..Len(pkgs[p].tests) |-> <<p, t>>]
         \o all_items_from(pkgs, p + 1)

\* is `short` what is left of `long` after dropping some of its items?
RECURSIVE is_subsequence(_, _)
is_subsequence(short, long) ==
    IF short = <<>> THEN TRUE
    ELSE IF long = <<>> THEN FALSE
    ELSE IF Head(short) = Head(long) THEN is_subsequence(Tail(short), Tail(long))
    ELSE is_subsequence(short, Tail(long))

\* C6: the unfiltered list is every package in insertion order, each followed
\* by its test cases in insertion order; the list under any filter is a
\* subsequence of it (so no longer, and in the same relative order).
C6_FilteredIsSubsequence ==
    /\ visible_list_items(packages, NoFilters) = all_items_from(packages, 1)
    /\ \A filters \in AllFilters :
          LET items == visible_list_items(packages, filters) IN
          /\ Len(items) <= Len(visible_list_items(packages, NoFilters))
          /\ is_subsequence(items, visible_list_items(packages, NoFilters))

\* C6 witness: the filter of the tests screen keeps two or more items and
\* drops one that is not the last of the unfiltered list
C6_Witness ==
    LET items == visible_list_items(packages, result_filters)
        all == visible_list_items(packages, NoFilters)
    IN /\ screen = "tests"
       /\ Len(items) >= 2 /\ Len(items) < Len(all)
       /\ items # SubSeq(all, 1, Len(items))

\* ---- C8
\* C8 (as stated): Enter on the tests screen shows the logs screen whenever
\* the visible list is not empty, with the log of the item at selected_index;
\* with an empty list it does nothing.
C8_EnterShowsSelectedLog ==
    LET items == visible_list_items(packages, result_filters) IN
    /\ last.arm = "enter" => screen = "tests" /\ items = <<>>
    /\ last.arm = "show_logs" =>
          /\ screen = "logs"
          /\ selected_index < Len(items)
          /\ logs = item_log(packages, items[selected_index + 1])

\* ---- C9
\* C9 (as stated): right after a toggle that leaves exactly the Fail filter
\* set, with every package and test case resolved and none of them failed,
\* the list is empty, selected_index is 0 and Enter would show no log.
C9_OnlyFailFilterClamps ==
    (/\ last.arm = "toggle"
     /\ result_filters = [pass |-> FALSE, fail |-> TRUE, skip |-> FALSE]
     /\ \A p \in 1..Len(packages) :
          /\ packages[p].result \in {Some("Pass"), Some("Skip")}
          /\ \A t \in 1..Len(packages[p].tests) :
                packages[p].tests[t].result \in {Some("Pass"), Some("Skip")})
    => LET items == visible_list_items(packages, result_filters) IN
       /\ items = <<>>
       /\ selected_index = 0
       /\ ~(selected_index < Len(items))

\* ---- C10
\* the bytes of a string: one per character, two for "é"
RECURSIVE bytes(_)
bytes(str) ==
    IF str = <<>> THEN <<>>
    ELSE (IF char_len(Head(str)) = 2
          THEN <<<<Head(str), 1>>, <<Head(str), 2>>>> ELSE <<<<Head(str), 1>>>>)
         \o bytes(Tail(str))

\* is `found` the byte offsets of the non-overlapping occurrences of `needle`
\* in `line`, taken left to right from byte `from` on?
RECURSIVE is_occurrences(_, _, _, _)
is_occurrences(found, line, needle, from) ==
    LET n == Len(bytes(needle))
        at(k) == k + n <= Len(bytes(line))
                 /\ SubSeq(bytes(line), k + 1, k + n) = bytes(needle)
        starts == {k \in from..Len(bytes(line)) : at(k)}
    IN IF starts = {} THEN found = <<>>
       ELSE LET first == CHOOSE k \in starts : \A other \in starts : k <= other
            IN /\ found # <<>>
               /\ Head(found) = first
               /\ is_occurrences(Tail(found), line, needle, first + n)

\* C10 (as stated): right after a character is typed into the search,
\* matches lists, line by line and left to right, the non-overlapping
\* occurrences of the search string, each with the byte range it covers.
C10_MatchesAreOccurrences ==
    (screen = "logs" /\ last.arm = "char") =>
        LET query == mode[2]
            of_line(idx) == SelectSeq(matches, LAMBDA m : m.line = idx)
        IN /\ \A i \in 1..Len(matches) :
                /\ matches[i].line \in 0..(Len(logs) - 1)
                /\ matches[i].end - matches[i].start = str_len(query)
                /\ matches[i].end <= str_len(logs[matches[i].line + 1])
                /\ SubSeq(bytes(logs[matches[i].line + 1]),
                          matches[i].start + 1, matches[i].end) = bytes(query)
           /\ \A i \in 1..(Len(matches) - 1) :
                \/ matches[i].line < matches[i + 1].line
                \/ /\ matches[i].line = matches[i + 1].line
                   /\ matches[i].start < matches[i + 1].start
           /\ \A idx \in 0..(Len(logs) - 1) :
                is_occurrences([i \in 1..Len(of_line(idx)) |-> of_line(idx)[i].start],
                               logs[idx + 1], query, 0)

\* ---------------------------------------------------------------- C11
\* The search string of the logs screen is the String of Mode::Search.

\* C11, as claimed: in every state of the logs screen, an empty search string
\* means an empty `matches` and `current_index` None, also right after '/'
\* re-enters Mode::Search following a search that had matches.
C11_EmptyQueryNoMatches ==
    (screen = "logs" /\ mode = <<"Search", <<>>>>)
        => (matches = <<>> /\ current_index = None)

\* C11, amended: a freshly opened logs screen has no matches and no current
\* match, and every step that leaves the logs screen with an empty search
\* string ('/' is the only one that makes it empty) leaves `matches` and
\* `current_index` exactly as they were.
C11_SlashKeepsMatches ==
    /\ [](last.arm = "show_logs" => (matches = <<>> /\ current_index = None))
    /\ [][(screen = "logs" /\ screen' = "logs" /\ mode' = <<"Search", <<>>>>)
            => (matches' = matches /\ current_index' = current_index)]_vars

\* '/' was pressed after a search that found something: the search string is
\* empty and the earlier matches are still there
C11_Witness ==
    /\ last.arm = "slash"
    /\ mode = <<"Search", <<>>>>
    /\ matches # <<>>
    /\ current_index # None

\* ---------------------------------------------------------------- C12

\* does `needle` occur anywhere in `line`?
line_contains(line, needle) ==
    \E i \in 1..Len(line) :
        /\ i + Len(needle) - 1 <= Len(line)
        /\ SubSeq(line, i, i + Len(needle) - 1) = needle

\* the indices (from 0) of the log lines that contain `needle`
lines_containing(needle) ==
    {idx \in 0..(Len(logs) - 1) : line_contains(logs[idx + 1], needle)}

\* C12: a character typed into the search leaves current_index = Some(0) and
\* scroll_y on the first line that holds a match when the new search string
\* occurs in the log, and current_index = None with scroll_y unchanged when it
\* occurs nowhere.
C12_TypedCharSelectsFirstMatch ==
    [][(\E c \in Chars : logs_search_char(c)) =>
         LET holders == lines_containing(mode'[2]) IN
         IF holders = {}
         THEN /\ matches' = <<>>
              /\ current_index' = None
              /\ logs_scroll_y' = logs_scroll_y
         ELSE /\ matches' # <<>>
              /\ current_index' = Some(0)
              /\ logs_scroll_y' = matches'[1].line
              /\ logs_scroll_y' \in holders
              /\ \A idx \in holders : logs_scroll_y' <= idx]_vars

\* a character was typed whose first match is not on the first line: the
\* screen scrolled down to it
C12_Witness ==
    /\ last.arm = "char"
    /\ matches # <<>>
    /\ current_index = Some(0)
    /\ logs_scroll_y = matches[1].line
    /\ logs_scroll_y > 0

\* ---------------------------------------------------------------- C13

\* what 'n' or 'N' does when it moves the current match from index `from` to
\* index `to`: only current_index and scroll_y change, and scroll_y is the
\* line of the match now current
moved_to_match(from, to) ==
    /\ current_index = Some(from)
    /\ current_index' = Some(to)
    /\ to < Len(matches)
    /\ logs_scroll_y' = matches[to + 1].line
    /\ UNCHANGED <<logs, logs_scroll_x, screen_height, mode, matches, screen, panicked>>

\* C13: 'n' moves the current match from i to min(i + 1, len - 1) and 'N' to
\* i - 1 or stays at 0, neither wraps, both scroll to the line of the match
\* they make current, both change nothing when there is no current match, and
\* 'N' pressed right after 'n' was pressed on the first match is at index 0.
C13_NextPrevClampNoWrap ==
    [][/\ (logs_next_match /\ current_index # None) =>
            \E i \in 0..(Len(matches) - 1) :
                moved_to_match(i, IF i = Len(matches) - 1 THEN i ELSE i + 1)
       /\ (logs_prev_match /\ current_index # None) =>
            \E i \in 0..(Len(matches) - 1) :
                moved_to_match(i, IF i = 0 THEN 0 ELSE i - 1)
       /\ ((logs_next_match \/ logs_prev_match) /\ current_index = None) =>
            UNCHANGED <<logs_vars, screen, panicked>>
       /\ (logs_prev_match /\ last.arm = "next_match" /\ last.was = Some(0)) =>
            current_index' = Some(0)]_vars

\* 'n' was pressed on the last of several matches: it stayed there
C13_Witness ==
    /\ last.arm = "next_match"
    /\ Len(matches) >= 2
    /\ last.was = Some(Len(matches) - 1)
    /\ current_index = Some(Len(matches) - 1)
    /\ logs_scroll_y = matches[Len(matches)].line

\* ---------------------------------------------------------------- C14
\* Backspace is a key of Mode::Search that is neither Esc, Enter nor Char(c):
\* the step it takes is logs_search_other.

\* a string without its last character
pop_char(str) == SubSeq(str, 1, Len(str) - 1)

\* C14, as claimed: Backspace in Mode::Search removes the last character of a
\* non-empty search string and recomputes `matches` and `current_index` from
\* the shorter string as a typed character does, so that Backspace after a
\* typed character restores the search string there was before it.
C14_BackspacePops ==
    [][(logs_search_other /\ mode[2] # <<>>) =>
         /\ mode' = <<"Search", pop_char(mode[2])>>
         /\ lines_containing(pop_char(mode[2])) = {} => current_index' = None
         /\ (pop_char(mode[2]) # <<>> /\ lines_containing(pop_char(mode[2])) # {})
                => (matches' # <<>> /\ current_index' = Some(0))]_vars

\* C14, amended: Backspace in Mode::Search, like every key there that is not
\* Esc, Enter or a character, changes nothing: the search string, `matches`,
\* `current_index` and scroll_y stay as they are, so a typed character is
\* never taken back.
C14_BackspaceIgnored ==
    [][logs_search_other => UNCHANGED <<logs_vars, screen, panicked>>]_vars

\* Backspace was pressed on a search string with matches, and the string is
\* as long as before
C14_Witness ==
    /\ last.arm = "search_other"
    /\ mode[1] = "Search"
    /\ mode[2] # <<>>
    /\ matches # <<>>
    /\ current_index # None

\* ---------------------------------------------------------------- C15

\* the search string a Mode holds: Mode::Search(string) holds one,
\* Mode::Normal holds none
search_string_of(m) == IF m[1] = "Search" THEN Some(m[2]) ELSE None

\* C15, as claimed: Esc and Enter in Mode::Search change only the mode: the
\* search string, `matches` and `current_index` are after the key what they
\* were before it, so the search string is still held.
C15_LeaveKeepsQuery ==
    [][logs_search_leave =>
         /\ search_string_of(mode') = search_string_of(mode)
         /\ matches' = matches
         /\ current_index' = current_index]_vars

\* C15, amended: Esc and Enter in Mode::Search set the mode to Mode::Normal,
\* which holds no search string: the string typed is gone, while `matches`,
\* `current_index` and the scroll position are what they were, and a current
\* match is one of `matches`, where 'n' and 'N' of Mode::Normal find it.
C15_LeaveKeepsMatchesOnly ==
    [][logs_search_leave =>
         /\ mode' = <<"Normal">>
         /\ search_string_of(mode') = None
         /\ UNCHANGED <<matches, current_index, logs, logs_scroll_x, logs_scroll_y,
                        screen_height, screen, panicked>>
         /\ current_index # None => unwrap(current_index') < Len(matches')]_vars

\* Esc or Enter left a search that has matches: they are still there
C15_Witness ==
    /\ last.arm = "leave_search"
    /\ mode = <<"Normal">>
    /\ matches # <<>>
    /\ current_index # None

\* ---------------------------------------------------------------- C16

\* C16: the logs screen is left for the tests screen only by Esc pressed in
\* Mode::Normal; Esc and Enter pressed in Mode::Search lead to Mode::Normal of
\* the logs screen, and no key pressed in Mode::Search leaves the logs screen.
C16_OnlyEscInNormalExits ==
    [][/\ (screen = "logs" /\ screen' # "logs") =>
            (mode = <<"Normal">> /\ logs_esc /\ screen' = "tests")
       /\ logs_search_leave => (screen' = "logs" /\ mode' = <<"Normal">>)
       /\ (screen = "logs" /\ mode[1] = "Search") => screen' = "logs"]_vars

\* Esc in Mode::Normal has led from the logs screen back to the tests screen
C16_Witness ==
    /\ last.arm = "exit"
    /\ screen = "tests"
    /\ mode = <<"Normal">>
    /\ ~panicked

\* ---------------------------------------------------------------- C17

\* C17: a pipe message received while the logs screen is open leaves the lines
\* the logs screen shows, its `matches` and its `current_index` as they are
\* and the logs screen open, while an `output` line still appends to the log
\* of the package or test case it names in the tree.
C17_OpenLogIsSnapshot ==
    [][\A line \in OpenLogLines :
         (screen = "logs" /\ pipe_beside_logs(line)) =>
            /\ screen' = "logs"
            /\ logs' = logs
            /\ matches' = matches
            /\ current_index' = current_index
            /\ line.action = Some("output") =>
                 LET p == find_package(packages, line.package)
                     t == IF p = 0 THEN 0 ELSE find_test(packages[p].tests, line.test)
                 IN /\ (p # 0 /\ line.test = None) =>
                          packages'[p].log = Append(packages[p].log, unwrap(line.output))
                    /\ t # 0 =>
                          packages'[p].tests[t].log
                              = Append(packages[p].tests[t].log, unwrap(line.output))]_vars

\* the log of a package grew in the tree after the logs screen opened it: the
\* screen still shows the lines it was given, with the matches found in them
C17_Witness ==
    /\ screen = "logs"
    /\ last.arm = "pipe"
    /\ logs # <<>>
    /\ matches # <<>>
    /\ current_index # None
    /\ \E p \in 1..Len(packages) :
          /\ Len(packages[p].log) > Len(logs)
          /\ SubSeq(packages[p].log, 1, Len(logs)) = logs

\* ---------------------------------------------------------------- C18

\* the scroll_y nearest to `scroll` that puts `selected` among `count` drawn rows
nearest_scroll_y(scroll, selected, count) ==
    IF selected < scroll THEN selected
    ELSE IF selected >= scroll + count THEN selected - count + 1
    ELSE scroll

\* C18, as claimed: right after a render of the tests screen with rows >= 3
\* and a selected_index inside the list, the selected item is one of the rows
\* drawn, scroll_y <= selected_index < scroll_y + (rows drawn), and scroll_y
\* has moved from where it was by exactly what the selection was above or
\* below the rows drawn.
C18_SelectedRowDrawn ==
    LET len == Len(visible_list_items(packages, result_filters))
        count == unwrap(last.rows) - 2
        drawn == render_rows(len, scroll_y, count)
    IN (/\ last.arm = "render"
        /\ ~panicked
        /\ unwrap(last.rows) >= 3
        /\ selected_index < len)
       => /\ selected_index \in drawn
          /\ scroll_y <= selected_index
          /\ selected_index < scroll_y + Cardinality(drawn)
          /\ scroll_y = nearest_scroll_y(unwrap(last.was), selected_index, count)

\* ---------------------------------------------------------------- C19

\* C19, as claimed: a render of the tests screen that repeats the render before
\* it, same rows and nothing in between, leaves scroll_y where the first one
\* put it, and no render writes the tree, selected_index, scroll_x or the
\* filter.
C19_RenderIdempotent ==
    /\ []((last.arm = "render" /\ last.again /\ ~panicked)
            => scroll_y = unwrap(last.was))
    /\ [][(\E rows \in Rows : tests_render(rows))
            => UNCHANGED <<packages, selected_index, scroll_x, result_filters>>]_vars

\* ---------------------------------------------------------------- C20

\* a line that lacks a field its action requires: the package of a start,
\* run, output or terminal line, or the test of a run line
missing_required(line) ==
    /\ line.action # None
    /\ \/ line.package = None
       \/ line.action = Some("run") /\ line.test = None

\* C20, as claimed: a pipe message that lacks a required field fails
\* explicitly in every state of the tree, the empty tree and a tree without
\* the named package included, and leaves the tree as it was.
C20_MissingFieldFails ==
    [][\A line \in TestLines :
         (missing_required(line) /\ pipe(line))
            => (panicked' /\ packages' = packages)]_vars

\* ---------------------------------------------------------------- C21

\* C21, as claimed: the log of every test case t of package a is the outputs
\* that arrived for the pair after the `run` line that created it, in the order
\* they arrived; an output that arrived before that line is in no log, and a
\* test case is created with an empty log.
C21_LogIsOutputsAfterRun ==
    LET p == find_package(packages, Some("a")) IN
    IF p = 0 THEN last.heard = <<>>
    ELSE /\ Len(packages[p].tests) = Len(last.heard)
         /\ \A k \in 1..Len(packages[p].tests) :
               packages[p].tests[k].log = last.heard[k]

\* ---------------------------------------------------------------- C22

\* C22, as claimed: for every rows >= 0 and every list, the empty one
\* included, a render of the tests screen or of the logs screen raises no
\* error, and the `rows - 1` of the logs screen saturates: the height it
\* keeps is rows - 1, or 0 when rows = 0.
C22_RenderNeverFails ==
    /\ last.arm \in {"render", "logs_render"} => ~panicked
    /\ (last.arm = "logs_render" /\ ~panicked)
          => screen_height = Some(saturating_sub(unwrap(last.rows), 1))

\* ---------------------------------------------------------------- C23

\* are the names of these entities all different?
names_unique(entities) ==
    \A i, j \in 1..Len(entities) : entities[i].name = entities[j].name => i = j

\* C23, as claimed: in every state of the tree no two packages have the same
\* name and no two test cases of one package have the same name, also after a
\* `start` or `run` line that repeats a name, so that the lookup by name
\* reaches every entity.
C23_NamesUnique ==
    /\ names_unique(packages)
    /\ \A p \in 1..Len(packages) :
          /\ names_unique(packages[p].tests)
          /\ find_package(packages, Some(packages[p].name)) = p
          /\ \A t \in 1..Len(packages[p].tests) :
                find_test(packages[p].tests, Some(packages[p].tests[t].name)) = t

\* ---------------------------------------------------------------- C24

\* C24: in every state of the logs screen, whatever keys were pressed in
\* Mode::Normal and Mode::Search, current_index is None exactly when `matches`
\* is empty, a current_index Some(i) has i < matches.len(), every match lies
\* on a line of the log, and so the matches[current_index] of 'n' and 'N' has
\* never failed.
C24_CurrentMatchInBounds ==
    screen = "logs" =>
        /\ current_index = None <=> matches = <<>>
        /\ current_index # None =>
              /\ unwrap(current_index) >= 0
              /\ unwrap(current_index) < Len(matches)
              /\ matches[unwrap(current_index) + 1].line < Len(logs)
        /\ \A k \in 1..Len(matches) : matches[k].line < Len(logs)
        /\ ~panicked

\* 'N' was pressed on the first of several matches: the current match is
\* still the first
C24_Witness ==
    /\ screen = "logs"
    /\ last.arm = "prev_match"
    /\ last.was = Some(0)
    /\ current_index = Some(0)
    /\ Len(matches) >= 2
    /\ logs_scroll_y = matches[1].line

====
